---- MODULE Spec2Model ----
(***************************************************************************)
(* Model of VideoWorker (src/main.py): the controller-facing operations    *)
(* start / stop / start_recording / stop_recording / is_recording /        *)
(* save_snapshot, and the worker thread body _run with its reconnect loop, *)
(* lazy materialization of the recording session, per-frame encode,        *)
(* flush at stream end and exit cleanup.                                   *)
(*                                                                         *)
(* One VideoWorker object is modelled.  The controller is one thread that  *)
(* issues calls one after another; every thread.start() creates a worker   *)
(* thread that runs _run.  Library calls (av.open, decode, encode, mux,    *)
(* close, QImage conversion) are modelled by their possible outcomes.      *)
(***************************************************************************)
EXTENDS Integers, Sequences, FiniteSets, TLC

\* ------------------------------------------------------------------ bounds
MaxThreads == 2      \* threads spawned by start() over the run
MaxFrames == 1       \* frames decoded over the run
MaxContainers == 1   \* output containers opened over the run
MaxPts == 0          \* source timestamps are 0..MaxPts, or absent
MaxSessionFrames == 3      \* frames decoded over a run of SessionSpec
MaxSessionPts == 1         \* source timestamps of SessionSpec
MaxSessionContainers == 2  \* output containers opened over a run of SessionSpec

\* ------------------------------------------------------------ input domains
Paths == {"a.mkv", "b.mkv"}
Transports == {"tcp"}
Latencies == {100}
\* the arguments of start() in ConnectSpec: the transports of the combo box;
\* latencies as the spin box gives them (0 and up) and as a loaded
\* configuration can give them to start_all_streams (any number)
ConnectTransports == {"tcp", "udp"}
ConnectLatencies == {-100, 0, 100}

\* --------------------------------------------------------------- constants
StimeoutMicros == 5000000     \* "stimeout": str(5_000_000)
JoinTimeoutSecs == 2          \* self._thread.join(timeout=2)
BackoffSecs == 2              \* time.sleep(2)
OpenTimeoutSecs == 5          \* av.open(..., timeout=5.0)
Unbounded == 1000             \* a call with no time limit of its own

Threads == 1..MaxThreads
ContainerIds == 1..MaxContainers
Ctl == 0            \* the controller thread, as lock holder / actor
Free == -1          \* the recording lock is not held
None == 0           \* Python None for thread / container / stream / image refs
NoPts == -1         \* frame.pts is None, or _recording_start_pts is None
NoPath == "None"    \* _recording_path is None

VARIABLES
    thread,               \* self._thread: None or the id of the thread object
    stopEv,               \* self._stop (threading.Event): TRUE when set
    last_qimage,          \* self._last_qimage: None or id of the frame held
    recording,            \* self._recording
    lock,                 \* holder of self._recording_lock, or Free
    out_container,        \* self._output_container: None or container id
    out_stream,           \* self._output_stream: None or id of its container
    recording_path,       \* self._recording_path
    frame_count,          \* self._frame_count
    recording_start_pts,  \* self._recording_start_pts
    containers,           \* the output containers av.open(..., 'w') has made
    decoded,              \* number of frames the sources have yielded so far
    pc,                   \* per thread: position in _run
    frame,                \* per thread: the local variable `frame`, while it is live
    opts,                 \* per thread: the local variable `opts`
    exitWhy,              \* per thread: why the while loop was left
    cleaned,              \* per thread: stop_recording() of line 216 returned
    nStopped,             \* per thread: stopped notifications emitted
    cpc,                  \* controller: the call in progress, or "idle"
    clast,                \* controller: "start" when start() returned last
    running,              \* the panel's st["running"], kept by the caller
    ev                    \* what the last step did (notifications, I/O, result)

workerVars == <<thread, stopEv, last_qimage>>
recVars == <<recording, out_container, out_stream, recording_path,
             frame_count, recording_start_pts>>
threadVars == <<pc, frame, opts, exitWhy, cleaned, nStopped>>
ctlVars == <<cpc, clast, running>>
vars == <<thread, stopEv, last_qimage, recording, lock, out_container,
          out_stream, recording_path, frame_count, recording_start_pts,
          containers, decoded, pc, frame, opts, exitWhy, cleaned, nStopped,
          cpc, clast, running, ev>>

NoFrame == [id |-> 0, pts |-> NoPts]
\* opts together with the argument latency_ms it is computed from
NoOpts == [rtsp_transport |-> "", stimeout |-> 0, max_delay |-> 0,
           latency_ms |-> 0]
\* An output container: unopened, open or closed; while open, whether it has
\* its encoder stream, whether the encoder holds frames encoded since the last
\* flush (dirty), whether the encoder has been flushed, and the frames handed
\* to its encoder so far, in order, each with its id, its source timestamp
\* and the output timestamp it was given (fed).
NoContainer == [st |-> "unopened", stream |-> FALSE, dirty |-> FALSE,
                flushed |-> FALSE, fed |-> <<>>]
ClosedContainer == [NoContainer EXCEPT !.st = "closed"]

\* A step's record: who acted, which code step, and what it emitted or did.
\* status / rec: the status and recording_status notifications emitted;
\* io: the calls on the output side, in order; path: where a container was
\* opened; pts: the timestamp given to an encoded frame; lost: a close dropped
\* frames the encoder still held; ret: a controller call's result; frame: the
\* frame decoded, recorded, delivered or saved; prev: the controller call
\* before this one; tid: the thread started or joined.
NoOut == -100     \* no frame was stamped in this step
Ev(by, op) == [by |-> by, op |-> op, status |-> "", rec |-> "none",
               io |-> <<>>, path |-> NoPath, pts |-> NoOut, lost |-> FALSE,
               ret |-> "none", frame |-> 0, prev |-> "", tid |-> 0]

Max(a, b) == IF a >= b THEN a ELSE b

\* options whose max_delay is latency_ms * 1000 whatever the sign
MakeOptsUnclamped(transport, latency_ms) ==
    [rtsp_transport |-> transport,
     stimeout |-> StimeoutMicros,
     max_delay |-> latency_ms * 1000,
     latency_ms |-> latency_ms]

\* _run lines 114-119: the options computed from the arguments of _run
MakeOpts(transport, latency_ms) ==
    [rtsp_transport |-> transport,
     stimeout |-> StimeoutMicros,
     max_delay |-> Max(0, latency_ms) * 1000,
     latency_ms |-> latency_ms]

\* threading.Thread.is_alive(): started and _run has not returned
Alive(t) == pc[t] \notin {"idle", "done"}

Spawned == {t \in Threads : pc[t] # "idle"}

\* VideoWorker.__init__, lines 52-63
Init ==
    /\ thread = None
    /\ stopEv = FALSE
    /\ last_qimage = None
    /\ recording = FALSE
    /\ lock = Free
    /\ out_container = None
    /\ out_stream = None
    /\ recording_path = NoPath
    /\ frame_count = 0
    /\ recording_start_pts = NoPts
    /\ containers = [c \in ContainerIds |-> NoContainer]
    /\ decoded = 0
    /\ pc = [t \in Threads |-> "idle"]
    /\ frame = [t \in Threads |-> NoFrame]
    /\ opts = [t \in Threads |-> NoOpts]
    /\ exitWhy = [t \in Threads |-> ""]
    /\ cleaned = [t \in Threads |-> FALSE]
    /\ nStopped = [t \in Threads |-> 0]
    /\ cpc = "idle"
    /\ clast = ""
    /\ running = FALSE
    /\ ev = Ev(Ctl, "init")

\* ------------------------------------------------- recording state as a value
\* The fields the recording lock guards, with what the guarded block has
\* emitted and done so far (status / recording_status notifications, I/O).
Cur ==
    [recording |-> recording, out_container |-> out_container,
     out_stream |-> out_stream, recording_path |-> recording_path,
     frame_count |-> frame_count, recording_start_pts |-> recording_start_pts,
     containers |-> containers,
     status |-> "", rec |-> "none", io |-> <<>>, path |-> NoPath,
     pts |-> NoOut, lost |-> FALSE, ret |-> "none"]

SetRec(s) ==
    /\ recording' = s.recording
    /\ out_container' = s.out_container
    /\ out_stream' = s.out_stream
    /\ recording_path' = s.recording_path
    /\ frame_count' = s.frame_count
    /\ recording_start_pts' = s.recording_start_pts
    /\ containers' = s.containers

EvOf(by, op, s) ==
    [Ev(by, op) EXCEPT !.status = s.status, !.rec = s.rec, !.io = s.io,
                       !.path = s.path, !.pts = s.pts, !.lost = s.lost,
                       !.ret = s.ret]

\* The id av.open(path, 'w') gives the next output container, None when the
\* model's supply of containers is used up.
NextContainer(cs) ==
    LET free == {c \in DOMAIN cs : cs[c].st = "unopened"}
    IN IF free = {} THEN None
       ELSE CHOOSE c \in free : \A d \in free : c <= d

\* a start_recording that opens the output container itself
start_recording_eager(s, path) ==
    LET c == NextContainer(s.containers)
    IN IF s.recording
       THEN [s EXCEPT !.ret = "False"]
       ELSE IF s.out_container # None \/ c = None
       THEN [s EXCEPT !.recording_path = path,
                      !.recording = TRUE,
                      !.rec = "T",
                      !.ret = "True"]
       ELSE [s EXCEPT !.recording_path = path,
                      !.recording = TRUE,
                      !.rec = "T",
                      !.ret = "True",
                      !.containers[c] = [NoContainer EXCEPT !.st = "open"],
                      !.io = Append(s.io, "open"),
                      !.path = path,
                      !.out_container = c]

\* start_recording without the check of line 87
start_recording_unchecked(s, path) ==
    [s EXCEPT !.recording_path = path,
              !.recording = TRUE,
              !.rec = "T",
              !.ret = "True"]

\* start_recording, the block under the lock (lines 87-92)
start_recording(s, path) ==
    IF s.recording
    THEN [s EXCEPT !.ret = "False"]
    ELSE [s EXCEPT !.recording_path = path,
                   !.recording = TRUE,
                   !.rec = "T",
                   !.ret = "True"]

\* container.close() of output container c (line 102): what the encoder still
\* holds, the frames encoded since the last flush, does not reach the file.
CloseContainer(s, c) ==
    [s EXCEPT !.containers[c] = ClosedContainer,
              !.lost = s.containers[c].dirty,
              !.io = Append(s.io, "close")]

\* stop_recording without the check of line 97
stop_recording_unchecked(s) ==
    LET s1 == [s EXCEPT !.recording = FALSE]
        s2 == IF s1.out_container # None
              THEN [CloseContainer(s1, s1.out_container) EXCEPT
                      !.out_container = None,
                      !.out_stream = None]
              ELSE s1
    IN [s2 EXCEPT !.rec = "F"]

\* stop_recording, the block under the lock (lines 97-107)
stop_recording(s) ==
    IF ~s.recording
    THEN s
    ELSE LET s1 == [s EXCEPT !.recording = FALSE]
             s2 == IF s1.out_container # None
                   THEN [CloseContainer(s1, s1.out_container) EXCEPT
                           !.out_container = None,
                           !.out_stream = None]
                   ELSE s1
         IN [s2 EXCEPT !.rec = "F"]

\* is_recording (lines 111-112)
is_recording(s) == [s EXCEPT !.ret = IF s.recording THEN "True" ELSE "False"]

MaterializeOutcomes == {"ok", "fail_open", "fail_add_stream", "fail_config"}
WriteOutcomes == {"ok", "fail_convert", "fail_encode", "fail_mux"}

\* line 144 without the test that no container is held
NeedsMaterializeAnew(s) ==
    s.recording /\ s.recording_path # NoPath

\* line 144: the condition under which the worker materializes the session
\* (a path, once given, is a non-empty string)
NeedsMaterialize(s) ==
    s.recording /\ s.out_container = None /\ s.recording_path # NoPath

\* a materialization whose failure clears the flag without the emit of
\* line 159
MaterializeFailsSilently(s, fr, outcome) ==
    LET c == NextContainer(s.containers)
        failed(x) == [x EXCEPT !.status = "Recording init failed",
                               !.recording = FALSE]
        opened == [s EXCEPT
                     !.containers[c] = [NoContainer EXCEPT !.st = "open"],
                     !.io = Append(s.io, "open"),
                     !.path = s.recording_path,
                     !.out_container = c]
        streamed == [opened EXCEPT !.containers[c].stream = TRUE,
                                   !.out_stream = c]
    IN IF outcome = "fail_open" \/ c = None THEN failed(s)
       ELSE IF outcome = "fail_add_stream" THEN failed(opened)
       ELSE IF outcome = "fail_config" THEN failed(streamed)
       ELSE [streamed EXCEPT !.recording_start_pts = fr.pts,
                             !.frame_count = 0]

\* lines 145-159: open the output container and configure the encoder stream
\* from frame fr; `outcome` is how far the try block gets before it raises.
Materialize(s, fr, outcome) ==
    LET c == NextContainer(s.containers)
        failed(x) == [x EXCEPT !.status = "Recording init failed",
                               !.recording = FALSE,
                               !.rec = "F"]
        opened == [s EXCEPT
                     !.containers[c] = [NoContainer EXCEPT !.st = "open"],
                     !.io = Append(s.io, "open"),
                     !.path = s.recording_path,
                     !.out_container = c]
        streamed == [opened EXCEPT !.containers[c].stream = TRUE,
                                   !.out_stream = c]
    IN IF outcome = "fail_open" \/ c = None THEN failed(s)
       ELSE IF outcome = "fail_add_stream" THEN failed(opened)
       ELSE IF outcome = "fail_config" THEN failed(streamed)
       ELSE [streamed EXCEPT !.recording_start_pts = fr.pts,
                             !.frame_count = 0]

\* line 162: the condition under which the frame is written
NeedsWrite(s) ==
    s.recording /\ s.out_container # None /\ s.out_stream # None

\* lines 171-175: the output timestamp of frame fr
OutputPts(s, fr) ==
    IF fr.pts # NoPts /\ s.recording_start_pts # NoPts
    THEN fr.pts - s.recording_start_pts
    ELSE s.frame_count

\* lines 163-181: convert, stamp, encode and mux frame fr; `outcome` is the
\* call that raises, if one does: the conversion (before the frame is stamped
\* and the counter moves), encode (the stamped frame was handed to it), or
\* mux (the encoder has taken the frame by then)
WriteFrame(s, fr, outcome) ==
    LET c == s.out_container
        err(x) == [x EXCEPT !.status = "Recording error"]
        counted == [s EXCEPT
                      !.frame_count = s.frame_count + 1,
                      !.containers[c].fed =
                          Append(s.containers[c].fed,
                                 [id |-> fr.id, src |-> fr.pts,
                                  out |-> OutputPts(s, fr)])]
        encoded == [counted EXCEPT
                      !.pts = OutputPts(s, fr),
                      !.containers[c].dirty = TRUE,
                      !.io = Append(s.io, "encode")]
    IN IF outcome = "fail_convert" THEN err(s)
       ELSE IF outcome = "fail_encode" THEN err(counted)
       ELSE IF outcome = "fail_mux" THEN err(encoded)
       ELSE encoded

\* lines 143-181: the whole block the worker runs under the lock for one frame
RecordFrame(s, fr, mOutcome, wOutcome) ==
    LET s1 == IF NeedsMaterialize(s) THEN Materialize(s, fr, mOutcome) ELSE s
    IN IF NeedsWrite(s1) THEN WriteFrame(s1, fr, wOutcome) ELSE s1

\* a stream end that ends the session: drain, then close as stop_recording
FlushEncoderEndsSession(s) ==
    IF s.recording /\ s.out_stream # None
    THEN stop_recording([s EXCEPT !.io = Append(s.io, "flush")])
    ELSE s

\* lines 193-198: drain the encoder (encode with no frame) at stream end; an
\* exception of the drain is swallowed (lines 197-198)
FlushEncoder(s) ==
    IF s.recording /\ s.out_stream # None
    THEN [s EXCEPT !.containers[s.out_container].dirty = FALSE,
                   !.containers[s.out_container].flushed = TRUE,
                   !.io = Append(s.io, "flush")]
    ELSE s

\* ------------------------------------------------------------- the controller
\* The longest a thread can stay at a position of _run, in seconds: the
\* source open is bounded by its timeout, the backoff by its span, the
\* decode / encode / convert calls and a wait for a held lock by nothing.
CallSecs(p) ==
    IF p = "open" THEN OpenTimeoutSecs
    ELSE IF p = "sleep" THEN BackoffSecs
    ELSE IF p \in {"decode", "locked", "publish", "flushing"} THEN Unbounded
    ELSE IF p \in {"lock", "flush", "cleanup"} /\ lock # Free THEN Unbounded
    ELSE 0

\* join(timeout=2) can give up on a thread only while that thread sits in a
\* call that can last as long as the timeout.
MayOutlastJoin(t) == CallSecs(pc[t]) >= JoinTimeoutSecs

\* line 74: the condition under which stop() signals and joins
HasLiveThread == thread # None /\ Alive(thread)

\* line 76 returns: the thread ended, or the timeout passed
JoinReturns == ~Alive(thread) \/ MayOutlastJoin(thread)

\* start(), lines 67-71, after its stop() dropped the handle (line 77): clear
\* the signal, create and start the thread; the new thread computes opts
\* (lines 115-119) before it first looks at anything shared. The caller
\* (start_stream, start_all_streams) then sets the panel's running flag
\* (lines 883, 961).
Spawn(transport, latency_ms) ==
    LET t == CHOOSE x \in Threads \ Spawned :
                 \A y \in Threads \ Spawned : x <= y
    IN /\ stopEv' = FALSE
       /\ thread' = t
       /\ pc' = [pc EXCEPT ![t] = "loop"]
       /\ opts' = [opts EXCEPT ![t] = MakeOpts(transport, latency_ms)]
       /\ ev' = [Ev(Ctl, "start_return") EXCEPT !.tid = t]
       /\ cpc' = "idle"
       /\ clast' = "start"
       /\ running' = TRUE
       /\ UNCHANGED <<last_qimage, lock, recVars, containers, decoded, frame,
                      exitWhy, cleaned, nStopped>>

\* start(url, transport, latency_ms) with no live thread, lines 65-71
CtlStart(transport, latency_ms) ==
    /\ cpc = "idle"
    /\ Spawned # Threads
    /\ ~HasLiveThread
    /\ Spawn(transport, latency_ms)

\* start() with a live thread, lines 66, 74-76: its stop() sets the signal
\* and begins to wait
CtlStartStops ==
    /\ cpc = "idle"
    /\ Spawned # Threads
    /\ HasLiveThread
    /\ stopEv' = TRUE
    /\ cpc' = "start_join"
    /\ clast' = ""
    /\ UNCHANGED running
    /\ ev' = Ev(Ctl, "start_call")
    /\ UNCHANGED <<thread, last_qimage, lock, recVars, containers, decoded,
                   threadVars>>

\* start(): the join of line 76 returns, then lines 77, 67-71
CtlStartJoined(transport, latency_ms) ==
    /\ cpc = "start_join"
    /\ JoinReturns
    /\ Spawn(transport, latency_ms)

\* stop() called by the controller, lines 73-77, up to the join; when stop()
\* has returned the caller (stop_stream, stop_all_streams) clears the panel's
\* running flag (lines 893, 971)
CtlStop ==
    /\ cpc = "idle"
    /\ IF HasLiveThread
       THEN /\ stopEv' = TRUE
            /\ cpc' = "stop_join"
            /\ ev' = [Ev(Ctl, "stop_call") EXCEPT !.prev = clast]
            /\ UNCHANGED <<thread, clast, running>>
       ELSE /\ thread' = None
            /\ clast' = ""
            /\ running' = FALSE
            /\ ev' = [Ev(Ctl, "stop_return") EXCEPT !.prev = clast,
                                                    !.tid = thread]
            /\ UNCHANGED <<stopEv, cpc>>
    /\ UNCHANGED <<last_qimage, lock, recVars, containers, decoded, threadVars>>

\* stop(): the join of line 76 returns and line 77 drops the handle
CtlStopJoined ==
    /\ cpc = "stop_join"
    /\ JoinReturns
    /\ thread' = None
    /\ cpc' = "idle"
    /\ clast' = ""
    /\ running' = FALSE
    /\ ev' = [Ev(Ctl, "stop_return") EXCEPT !.prev = clast, !.tid = thread]
    /\ UNCHANGED <<stopEv, last_qimage, lock, recVars, containers, decoded,
                   threadVars>>

\* A call of start_recording / stop_recording / is_recording finds the lock
\* held by a worker thread and waits at its `with self._recording_lock`.
CtlBlocked(op) ==
    /\ cpc = "idle"
    /\ lock # Free
    /\ cpc' = op
    /\ clast' = ""
    /\ UNCHANGED running
    /\ ev' = Ev(Ctl, "blocked")
    /\ UNCHANGED <<workerVars, lock, recVars, containers, decoded, threadVars>>

CtlBlockedStartRecording == CtlBlocked("start_recording")
CtlBlockedStopRecording == CtlBlocked("stop_recording")
CtlBlockedIsRecording == CtlBlocked("is_recording")

\* The controller gets the lock, at once or after waiting for it, runs the
\* guarded block, of which s is the result, and returns.
CtlGuarded(op, s) ==
    /\ cpc \in {"idle", op}
    /\ lock = Free
    /\ SetRec(s)
    /\ ev' = EvOf(Ctl, op, s)
    /\ cpc' = "idle"
    /\ clast' = ""
    /\ UNCHANGED <<workerVars, lock, decoded, threadVars, running>>

\* start_recording(path), lines 84-92
CtlStartRecording(path) ==
    CtlGuarded("start_recording", start_recording(Cur, path))

\* stop_recording() called by the controller, lines 94-107
CtlStopRecording ==
    CtlGuarded("stop_recording", stop_recording(Cur))

\* is_recording(), lines 109-112
CtlIsRecording ==
    CtlGuarded("is_recording", is_recording(Cur))

\* save_snapshot without the check of line 80
CtlSaveSnapshotUnchecked(saved) ==
    /\ cpc = "idle"
    /\ ev' = [Ev(Ctl, "save_snapshot") EXCEPT
                !.ret = IF saved THEN "True" ELSE "False",
                !.frame = IF saved THEN last_qimage ELSE 0]
    /\ clast' = ""
    /\ UNCHANGED <<workerVars, lock, recVars, containers, decoded, threadVars,
                   cpc, running>>

\* save_snapshot(path), lines 79-82; saved tells whether QImage.save succeeds
CtlSaveSnapshot(saved) ==
    /\ cpc = "idle"
    /\ ev' = [Ev(Ctl, "save_snapshot") EXCEPT
                !.ret = IF last_qimage = None THEN "False"
                        ELSE IF saved THEN "True" ELSE "False",
                !.frame = IF last_qimage # None /\ saved THEN last_qimage ELSE 0]
    /\ clast' = ""
    /\ UNCHANGED <<workerVars, lock, recVars, containers, decoded, threadVars,
                   cpc, running>>

\* ------------------------------------------------------ the worker thread _run
Goto(t, p) == pc' = [pc EXCEPT ![t] = p]

\* leave the while loop for the cleanup of lines 215-217
ExitLoop(t, why) ==
    /\ Goto(t, "cleanup")
    /\ exitWhy' = [exitWhy EXCEPT ![t] = why]

RetryStatus(kind) ==
    IF kind = "av" THEN "FFmpeg/PyAV error; retrying in 2s"
    ELSE "Error; retrying in 2s"

ExcKinds == {"av", "other"}

\* except handlers that give up after an error instead of retrying
ExceptHandlerGivesUp(t, op, kind) ==
    /\ ExitLoop(t, IF stopEv THEN "cancel" ELSE "error")
    /\ ev' = Ev(t, op)

\* the except handlers, lines 204-213: leave when the cancel signal is set,
\* otherwise announce the error and back off
ExceptHandler(t, op, kind) ==
    IF stopEv
    THEN /\ ExitLoop(t, "cancel")
         /\ ev' = Ev(t, op)
    ELSE /\ Goto(t, "sleep")
         /\ ev' = [Ev(t, op) EXCEPT !.status = RetryStatus(kind)]
         /\ UNCHANGED exitWhy

\* line 121 and line 123 in a new thread: the loop condition, then
\* "Connecting"
LoopHead(t) ==
    /\ pc[t] = "loop"
    /\ IF stopEv
       THEN /\ ExitLoop(t, "cancel")
            /\ ev' = Ev(t, "loop_exit")
       ELSE /\ Goto(t, "open")
            /\ ev' = [Ev(t, "connect") EXCEPT !.status = "Connecting"]
            /\ UNCHANGED exitWhy
    /\ UNCHANGED <<workerVars, lock, recVars, containers, decoded, frame, opts,
                   cleaned, nStopped, ctlVars>>

\* line 124 raises: the source cannot be opened
OpenFails(t, kind) ==
    /\ pc[t] = "open"
    /\ ExceptHandler(t, "open_failed", kind)
    /\ UNCHANGED <<workerVars, lock, recVars, containers, decoded, frame, opts,
                   cleaned, nStopped, ctlVars>>

\* "no video stream" treated as one more transient failure
OpenNoVideoRetries(t) ==
    /\ pc[t] = "open"
    /\ Goto(t, "sleep")
    /\ ev' = [Ev(t, "no_video") EXCEPT !.status = "No video stream found"]
    /\ UNCHANGED <<workerVars, lock, recVars, containers, decoded, frame, opts,
                   exitWhy, cleaned, nStopped, ctlVars>>

\* lines 125-128: the source opened and has no video stream
OpenNoVideo(t) ==
    /\ pc[t] = "open"
    /\ ExitLoop(t, "novideo")
    /\ ev' = [Ev(t, "no_video") EXCEPT !.status = "No video stream found"]
    /\ UNCHANGED <<workerVars, lock, recVars, containers, decoded, frame, opts,
                   cleaned, nStopped, ctlVars>>

\* a successful open that goes on to decode without announcing "Playing"
OpenPlayingUnannounced(t) ==
    /\ pc[t] = "open"
    /\ Goto(t, "decode")
    /\ ev' = Ev(t, "playing")
    /\ UNCHANGED <<workerVars, lock, recVars, containers, decoded, frame, opts,
                   exitWhy, cleaned, nStopped, ctlVars>>

\* lines 125-137: the source opened and has a video stream
OpenPlaying(t) ==
    /\ pc[t] = "open"
    /\ Goto(t, "decode")
    /\ ev' = [Ev(t, "playing") EXCEPT !.status = "Playing"]
    /\ UNCHANGED <<workerVars, lock, recVars, containers, decoded, frame, opts,
                   exitWhy, cleaned, nStopped, ctlVars>>

PtsValues == {NoPts} \cup (0..MaxPts)

\* lines 138-140: the decoder yields a frame; the cancel check that follows
DecodeFrame(t, pts) ==
    /\ pc[t] = "decode"
    /\ decoded < MaxFrames
    /\ decoded' = decoded + 1
    /\ frame' = [frame EXCEPT ![t] = IF stopEv THEN NoFrame
                                     ELSE [id |-> decoded + 1, pts |-> pts]]
    /\ Goto(t, IF stopEv THEN "flush" ELSE "lock")
    /\ ev' = [Ev(t, "decoded") EXCEPT !.frame = decoded + 1]
    /\ UNCHANGED <<workerVars, lock, recVars, containers, opts, exitWhy,
                   cleaned, nStopped, ctlVars>>

\* line 138: the source is exhausted, the for loop and the with block end
DecodeEnd(t) ==
    /\ pc[t] = "decode"
    /\ Goto(t, "flush")
    /\ ev' = Ev(t, "stream_end")
    /\ UNCHANGED <<workerVars, lock, recVars, containers, decoded, frame, opts,
                   exitWhy, cleaned, nStopped, ctlVars>>

\* line 138 raises: transport or decode error in mid-stream
DecodeError(t, kind) ==
    /\ pc[t] = "decode"
    /\ ExceptHandler(t, "decode_error", kind)
    /\ UNCHANGED <<workerVars, lock, recVars, containers, decoded, frame, opts,
                   cleaned, nStopped, ctlVars>>

\* line 143: the worker takes the lock for the frame
AcquireFrameLock(t) ==
    /\ pc[t] = "lock"
    /\ lock = Free
    /\ lock' = t
    /\ Goto(t, "locked")
    /\ ev' = Ev(t, "frame_lock")
    /\ UNCHANGED <<workerVars, recVars, containers, decoded, frame, opts,
                   exitWhy, cleaned, nStopped, ctlVars>>

\* a recording block that keeps the lock when it ends
RecordStepKeepsLock(t, mOutcome, wOutcome) ==
    /\ pc[t] = "locked"
    /\ LET s == RecordFrame(Cur, frame[t], mOutcome, wOutcome)
       IN /\ SetRec(s)
          /\ ev' = [EvOf(t, "record", s) EXCEPT !.frame = frame[t].id]
    /\ Goto(t, "publish")
    /\ UNCHANGED <<workerVars, lock, decoded, frame, opts, exitWhy, cleaned,
                   nStopped, ctlVars>>

\* a frame loop whose recording failures reach the outer except handlers
RecordStepFailureRetries(t, mOutcome, wOutcome) ==
    /\ pc[t] = "locked"
    /\ LET s == RecordFrame(Cur, frame[t], mOutcome, wOutcome)
       IN /\ SetRec(s)
          /\ ev' = [EvOf(t, "record", s) EXCEPT !.frame = frame[t].id]
          /\ Goto(t, IF s.status = "" THEN "publish" ELSE "sleep")
    /\ lock' = Free
    /\ UNCHANGED <<workerVars, decoded, frame, opts, exitWhy, cleaned,
                   nStopped, ctlVars>>

\* lines 144-181, then the release of the lock
RecordStep(t, mOutcome, wOutcome) ==
    /\ pc[t] = "locked"
    /\ LET s == RecordFrame(Cur, frame[t], mOutcome, wOutcome)
       IN /\ SetRec(s)
          /\ ev' = [EvOf(t, "record", s) EXCEPT !.frame = frame[t].id]
    /\ lock' = Free
    /\ Goto(t, "publish")
    /\ UNCHANGED <<workerVars, decoded, frame, opts, exitWhy, cleaned,
                   nStopped, ctlVars>>

\* lines 184-189: convert, copy, keep as _last_qimage and emit frame_ready
PublishFrame(t) ==
    /\ pc[t] = "publish"
    /\ last_qimage' = frame[t].id
    /\ frame' = [frame EXCEPT ![t] = NoFrame]
    /\ Goto(t, "decode")
    /\ ev' = [Ev(t, "frame_ready") EXCEPT !.frame = frame[t].id]
    /\ UNCHANGED <<thread, stopEv, lock, recVars, containers, decoded, opts,
                   exitWhy, cleaned, nStopped, ctlVars>>

\* lines 184-187 raise: the conversion of the frame fails
PublishError(t, kind) ==
    /\ pc[t] = "publish"
    /\ ExceptHandler(t, "publish_error", kind)
    /\ frame' = [frame EXCEPT ![t] = NoFrame]
    /\ UNCHANGED <<workerVars, lock, recVars, containers, decoded, opts,
                   cleaned, nStopped, ctlVars>>

\* line 192: the worker takes the lock for the flush
AcquireFlushLock(t) ==
    /\ pc[t] = "flush"
    /\ lock = Free
    /\ lock' = t
    /\ Goto(t, "flushing")
    /\ ev' = Ev(t, "flush_lock")
    /\ UNCHANGED <<workerVars, recVars, containers, decoded, frame, opts,
                   exitWhy, cleaned, nStopped, ctlVars>>

\* lines 193-198, then the release of the lock
FlushStepKeepsLock(t) ==
    /\ pc[t] = "flushing"
    /\ LET s == FlushEncoder(Cur)
       IN /\ SetRec(s)
          /\ ev' = EvOf(t, "flush", s)
    /\ Goto(t, "after_flush")
    /\ UNCHANGED <<workerVars, lock, decoded, frame, opts, exitWhy, cleaned,
                   nStopped, ctlVars>>

FlushStep(t) ==
    /\ pc[t] = "flushing"
    /\ LET s == FlushEncoder(Cur)
       IN /\ SetRec(s)
          /\ ev' = EvOf(t, "flush", s)
    /\ lock' = Free
    /\ Goto(t, "after_flush")
    /\ UNCHANGED <<workerVars, decoded, frame, opts, exitWhy, cleaned,
                   nStopped, ctlVars>>

\* lines 200-202: leave when the cancel signal is set, otherwise announce the
\* stream end and back off
AfterFlush(t) ==
    /\ pc[t] = "after_flush"
    /\ IF stopEv
       THEN /\ ExitLoop(t, "cancel")
            /\ ev' = Ev(t, "stream_exit")
       ELSE /\ Goto(t, "sleep")
            /\ ev' = [Ev(t, "stream_retry") EXCEPT
                        !.status = "Stream ended, reconnecting in 2s"]
            /\ UNCHANGED exitWhy
    /\ UNCHANGED <<workerVars, lock, recVars, containers, decoded, frame, opts,
                   cleaned, nStopped, ctlVars>>

\* lines 203, 208, 213: time.sleep(2) returns; then the loop condition of
\* line 121 and the "Connecting" of line 123
BackoffDone(t) ==
    /\ pc[t] = "sleep"
    /\ IF stopEv
       THEN /\ ExitLoop(t, "cancel")
            /\ ev' = Ev(t, "loop_exit")
       ELSE /\ Goto(t, "open")
            /\ ev' = [Ev(t, "reconnect") EXCEPT !.status = "Connecting"]
            /\ UNCHANGED exitWhy
    /\ UNCHANGED <<workerVars, lock, recVars, containers, decoded, frame, opts,
                   cleaned, nStopped, ctlVars>>

\* an exit that goes to line 217 without the stop_recording() of line 216
CleanupSkipsStopRecording(t) ==
    /\ pc[t] = "cleanup"
    /\ Goto(t, "emit_stopped")
    /\ ev' = Ev(t, "cleanup_skipped")
    /\ UNCHANGED <<workerVars, lock, recVars, containers, decoded, frame, opts,
                   exitWhy, cleaned, nStopped, ctlVars>>

\* line 216: self.stop_recording() on the way out
Cleanup(t) ==
    /\ pc[t] = "cleanup"
    /\ lock = Free
    /\ LET s == stop_recording(Cur)
       IN /\ SetRec(s)
          /\ ev' = EvOf(t, "cleanup", s)
    /\ cleaned' = [cleaned EXCEPT ![t] = TRUE]
    /\ Goto(t, "emit_stopped")
    /\ UNCHANGED <<workerVars, lock, decoded, frame, opts, exitWhy, nStopped,
                   ctlVars>>

\* line 217: self.stopped.emit(); _run returns
EmitStopped(t) ==
    /\ pc[t] = "emit_stopped"
    /\ nStopped' = [nStopped EXCEPT ![t] = nStopped[t] + 1]
    /\ Goto(t, "done")
    /\ ev' = Ev(t, "stopped")
    /\ UNCHANGED <<workerVars, lock, recVars, containers, decoded, frame, opts,
                   exitWhy, cleaned, ctlVars>>

\* ------------------------------------------------------------ specification
Next ==
    \/ \E tr \in Transports, l \in Latencies : CtlStart(tr, l)
    \/ CtlStartStops
    \/ \E tr \in Transports, l \in Latencies : CtlStartJoined(tr, l)
    \/ CtlStop
    \/ CtlStopJoined
    \/ CtlBlockedStartRecording
    \/ CtlBlockedStopRecording
    \/ CtlBlockedIsRecording
    \/ \E p \in Paths : CtlStartRecording(p)
    \/ CtlStopRecording
    \/ CtlIsRecording
    \/ \E saved \in BOOLEAN : CtlSaveSnapshot(saved)
    \/ \E t \in Threads : LoopHead(t)
    \/ \E t \in Threads, k \in ExcKinds : OpenFails(t, k)
    \/ \E t \in Threads : OpenNoVideo(t)
    \/ \E t \in Threads : OpenPlaying(t)
    \/ \E t \in Threads, p \in PtsValues : DecodeFrame(t, p)
    \/ \E t \in Threads : DecodeEnd(t)
    \/ \E t \in Threads, k \in ExcKinds : DecodeError(t, k)
    \/ \E t \in Threads : AcquireFrameLock(t)
    \/ \E t \in Threads, m \in MaterializeOutcomes, w \in WriteOutcomes :
          RecordStep(t, m, w)
    \/ \E t \in Threads : PublishFrame(t)
    \/ \E t \in Threads, k \in ExcKinds : PublishError(t, k)
    \/ \E t \in Threads : AcquireFlushLock(t)
    \/ \E t \in Threads : FlushStep(t)
    \/ \E t \in Threads : AfterFlush(t)
    \/ \E t \in Threads : BackoffDone(t)
    \/ \E t \in Threads : Cleanup(t)
    \/ \E t \in Threads : EmitStopped(t)

Spec == Init /\ [][Next]_vars

\* The steps of thread t.  A started thread is scheduled, and every library
\* call it makes and its backoff sleep return: a thread that can take a step
\* eventually takes one.
WorkerStep(t) ==
    \/ LoopHead(t)
    \/ \E k \in ExcKinds : OpenFails(t, k)
    \/ OpenNoVideo(t)
    \/ OpenPlaying(t)
    \/ \E p \in PtsValues : DecodeFrame(t, p)
    \/ DecodeEnd(t)
    \/ \E k \in ExcKinds : DecodeError(t, k)
    \/ AcquireFrameLock(t)
    \/ \E m \in MaterializeOutcomes, w \in WriteOutcomes : RecordStep(t, m, w)
    \/ PublishFrame(t)
    \/ \E k \in ExcKinds : PublishError(t, k)
    \/ AcquireFlushLock(t)
    \/ FlushStep(t)
    \/ AfterFlush(t)
    \/ BackoffDone(t)
    \/ Cleanup(t)
    \/ EmitStopped(t)

FairSpec == Spec /\ \A t \in Threads : WF_vars(WorkerStep(t))

\* ------------------------------------------ connect, fail, reconnect
\* The connect loop alone, over all the arguments of start(): threads are
\* started and stopped, sources fail to open, have no video stream, or open
\* and end or fail before any frame; nothing is recorded.
ConnectNext ==
    \/ \E tr \in ConnectTransports, l \in ConnectLatencies : CtlStart(tr, l)
    \/ CtlStartStops
    \/ \E tr \in ConnectTransports, l \in ConnectLatencies :
          CtlStartJoined(tr, l)
    \/ CtlStop
    \/ CtlStopJoined
    \/ \E t \in Threads : LoopHead(t)
    \/ \E t \in Threads, k \in ExcKinds : OpenFails(t, k)
    \/ \E t \in Threads : OpenNoVideo(t)
    \/ \E t \in Threads : OpenPlaying(t)
    \/ \E t \in Threads : DecodeEnd(t)
    \/ \E t \in Threads, k \in ExcKinds : DecodeError(t, k)
    \/ \E t \in Threads : AcquireFlushLock(t)
    \/ \E t \in Threads : FlushStep(t)
    \/ \E t \in Threads : AfterFlush(t)
    \/ \E t \in Threads : BackoffDone(t)
    \/ \E t \in Threads : Cleanup(t)
    \/ \E t \in Threads : EmitStopped(t)

ConnectSpec == Init /\ [][ConnectNext]_vars

\* ------------------------------------- one connection, several frames
\* The recording side over a longer run of frames: a worker thread that plays
\* (start(), "Connecting", open, "Playing" are done), a controller that
\* starts and stops recording, a source that yields up to MaxSessionFrames
\* frames, ends and is reopened.
SessionPtsValues == {NoPts} \cup (0..MaxSessionPts)
SessionContainerIds == 1..MaxSessionContainers

\* the state once thread 1 has announced "Playing" (line 137)
SessionInit ==
    /\ thread = 1
    /\ stopEv = FALSE
    /\ last_qimage = None
    /\ recording = FALSE
    /\ lock = Free
    /\ out_container = None
    /\ out_stream = None
    /\ recording_path = NoPath
    /\ frame_count = 0
    /\ recording_start_pts = NoPts
    /\ containers = [c \in SessionContainerIds |-> NoContainer]
    /\ decoded = 0
    /\ pc = [t \in Threads |-> IF t = 1 THEN "decode" ELSE "idle"]
    /\ frame = [t \in Threads |-> NoFrame]
    /\ \E tr \in Transports, l \in Latencies :
          opts = [t \in Threads |-> IF t = 1 THEN MakeOpts(tr, l) ELSE NoOpts]
    /\ exitWhy = [t \in Threads |-> ""]
    /\ cleaned = [t \in Threads |-> FALSE]
    /\ nStopped = [t \in Threads |-> 0]
    /\ cpc = "idle"
    /\ clast = "start"
    /\ running = TRUE
    /\ ev = [Ev(1, "playing") EXCEPT !.status = "Playing"]

\* lines 138-140 with the cancel signal unset: the decoder yields a frame
SessionDecodeFrame(t, pts) ==
    /\ pc[t] = "decode"
    /\ ~stopEv
    /\ decoded < MaxSessionFrames
    /\ decoded' = decoded + 1
    /\ frame' = [frame EXCEPT ![t] = [id |-> decoded + 1, pts |-> pts]]
    /\ Goto(t, "lock")
    /\ ev' = [Ev(t, "decoded") EXCEPT !.frame = decoded + 1]
    /\ UNCHANGED <<workerVars, lock, recVars, containers, opts, exitWhy,
                   cleaned, nStopped, ctlVars>>

SessionNext ==
    \/ \E p \in Paths : CtlStartRecording(p)
    \/ CtlStopRecording
    \/ \E saved \in BOOLEAN : CtlSaveSnapshot(saved)
    \/ \E t \in Threads : OpenPlaying(t)
    \/ \E t \in Threads, k \in ExcKinds : OpenFails(t, k)
    \/ \E t \in Threads, p \in SessionPtsValues : SessionDecodeFrame(t, p)
    \/ \E t \in Threads : DecodeEnd(t)
    \/ \E t \in Threads, k \in ExcKinds : DecodeError(t, k)
    \/ \E t \in Threads : AcquireFrameLock(t)
    \/ \E t \in Threads, m \in MaterializeOutcomes, w \in WriteOutcomes :
          RecordStep(t, m, w)
    \/ \E t \in Threads : PublishFrame(t)
    \/ \E t \in Threads, k \in ExcKinds : PublishError(t, k)
    \/ \E t \in Threads : AcquireFlushLock(t)
    \/ \E t \in Threads : FlushStep(t)
    \/ \E t \in Threads : AfterFlush(t)
    \/ \E t \in Threads : BackoffDone(t)

SessionSpec == SessionInit /\ [][SessionNext]_vars

\* ------------------------------------------- two threads in the frame loop
\* The frame loop run by two threads at once: start() gave up its join on
\* thread 1, which was waiting for a frame (line 138), cleared the cancel
\* signal and started thread 2; both have announced "Playing", each on its
\* own connection.  Frame ids count the frames in the order they are decoded.
TwoThreadInit ==
    /\ thread = 2
    /\ stopEv = FALSE
    /\ last_qimage = None
    /\ recording = FALSE
    /\ lock = Free
    /\ out_container = None
    /\ out_stream = None
    /\ recording_path = NoPath
    /\ frame_count = 0
    /\ recording_start_pts = NoPts
    /\ containers = [c \in ContainerIds |-> NoContainer]
    /\ decoded = 0
    /\ pc = [t \in Threads |-> IF t <= 2 THEN "decode" ELSE "idle"]
    /\ frame = [t \in Threads |-> NoFrame]
    /\ \E tr \in Transports, l \in Latencies :
          opts = [t \in Threads |-> IF t <= 2 THEN MakeOpts(tr, l) ELSE NoOpts]
    /\ exitWhy = [t \in Threads |-> ""]
    /\ cleaned = [t \in Threads |-> FALSE]
    /\ nStopped = [t \in Threads |-> 0]
    /\ cpc = "idle"
    /\ clast = "start"
    /\ running = TRUE
    /\ ev = [Ev(2, "playing") EXCEPT !.status = "Playing"]

TwoThreadNext ==
    \/ \E p \in Paths : CtlStartRecording(p)
    \/ \E t \in Threads, p \in SessionPtsValues : SessionDecodeFrame(t, p)
    \/ \E t \in Threads : AcquireFrameLock(t)
    \/ \E t \in Threads, m \in MaterializeOutcomes, w \in WriteOutcomes :
          RecordStep(t, m, w)
    \/ \E t \in Threads : PublishFrame(t)

TwoThreadSpec == TwoThreadInit /\ [][TwoThreadNext]_vars

\* --------------------------------------- two threads publishing frames
\* Lines 184-189 in two steps, for what another thread does between the
\* assignment of line 188 and the emit of line 189; the position between
\* the two is "emit".
\* lines 184-188: convert, copy and keep as _last_qimage
StoreFrame(t) ==
    /\ pc[t] = "publish"
    /\ last_qimage' = frame[t].id
    /\ Goto(t, "emit")
    /\ ev' = [Ev(t, "frame_stored") EXCEPT !.frame = frame[t].id]
    /\ UNCHANGED <<thread, stopEv, lock, recVars, containers, decoded, frame,
                   opts, exitWhy, cleaned, nStopped, ctlVars>>

\* line 189: self.frame_ready.emit(qimg)
EmitFrame(t) ==
    /\ pc[t] = "emit"
    /\ frame' = [frame EXCEPT ![t] = NoFrame]
    /\ Goto(t, "decode")
    /\ ev' = [Ev(t, "frame_ready") EXCEPT !.frame = frame[t].id]
    /\ UNCHANGED <<workerVars, lock, recVars, containers, decoded, opts,
                   exitWhy, cleaned, nStopped, ctlVars>>

PublishNext ==
    \/ \E saved \in BOOLEAN : CtlSaveSnapshot(saved)
    \/ \E t \in Threads, p \in SessionPtsValues : SessionDecodeFrame(t, p)
    \/ \E t \in Threads : AcquireFrameLock(t)
    \/ \E t \in Threads, m \in MaterializeOutcomes, w \in WriteOutcomes :
          RecordStep(t, m, w)
    \/ \E t \in Threads : StoreFrame(t)
    \/ \E t \in Threads : EmitFrame(t)

PublishSpec == TwoThreadInit /\ [][PublishNext]_vars

\* ------------------------------------------------- the panel of one worker
\* The worker as its panel drives it: the start button is enabled while the
\* panel's running flag is clear, the stop button while it is set (lines
\* 943-945). No slot is connected to the stopped signal (lines 413-417), so
\* EmitStopped changes nothing of the panel.
StartStream(transport, latency_ms) ==
    /\ ~running
    /\ CtlStart(transport, latency_ms)

StopStream ==
    /\ running
    /\ CtlStop

PanelNext ==
    \/ \E tr \in ConnectTransports, l \in Latencies : StartStream(tr, l)
    \/ StopStream
    \/ CtlStopJoined
    \/ \E t \in Threads : LoopHead(t)
    \/ \E t \in Threads, k \in ExcKinds : OpenFails(t, k)
    \/ \E t \in Threads : OpenNoVideo(t)
    \/ \E t \in Threads : OpenPlaying(t)
    \/ \E t \in Threads : DecodeEnd(t)
    \/ \E t \in Threads, k \in ExcKinds : DecodeError(t, k)
    \/ \E t \in Threads : AcquireFlushLock(t)
    \/ \E t \in Threads : FlushStep(t)
    \/ \E t \in Threads : AfterFlush(t)
    \/ \E t \in Threads : BackoffDone(t)
    \/ \E t \in Threads : Cleanup(t)
    \/ \E t \in Threads : EmitStopped(t)

PanelSpec == Init /\ [][PanelNext]_vars

\* --------------------------------------------- calls that wait for the lock
\* One thread in the frame loop, a controller whose start_recording,
\* stop_recording and is_recording calls find the lock held or free, and the
\* thread's way out through the stop_recording of its cleanup.
LockNext ==
    \/ CtlBlockedStartRecording
    \/ CtlBlockedStopRecording
    \/ CtlBlockedIsRecording
    \/ \E p \in Paths : CtlStartRecording(p)
    \/ CtlStopRecording
    \/ CtlIsRecording
    \/ CtlStop
    \/ CtlStopJoined
    \/ \E t \in Threads : OpenPlaying(t)
    \/ \E t \in Threads, p \in PtsValues : DecodeFrame(t, p)
    \/ \E t \in Threads : DecodeEnd(t)
    \/ \E t \in Threads : AcquireFrameLock(t)
    \/ \E t \in Threads, m \in MaterializeOutcomes, w \in WriteOutcomes :
          RecordStep(t, m, w)
    \/ \E t \in Threads : PublishFrame(t)
    \/ \E t \in Threads : AcquireFlushLock(t)
    \/ \E t \in Threads : FlushStep(t)
    \/ \E t \in Threads : AfterFlush(t)
    \/ \E t \in Threads : BackoffDone(t)
    \/ \E t \in Threads : Cleanup(t)
    \/ \E t \in Threads : EmitStopped(t)

LockSpec == SessionInit /\ [][LockNext]_vars

\* a block under the lock runs to its end: the calls made in it return
GuardedBlockEnds(t) ==
    \/ \E m \in MaterializeOutcomes, w \in WriteOutcomes : RecordStep(t, m, w)
    \/ FlushStep(t)

\* a controller call that waits for the lock gets it
WaitingCallReturns ==
    /\ cpc \in {"start_recording", "stop_recording", "is_recording"}
    /\ \/ \E p \in Paths : CtlStartRecording(p)
       \/ CtlStopRecording
       \/ CtlIsRecording

\* The blocks under the lock end (weak fairness: nothing but the thread's own
\* step ends them); a waiting call gets the lock when it is free again and
\* again (strong fairness: between two of its blocks the thread is in a
\* decode call or in the backoff); the thread's own stop_recording runs.
LockFairSpec ==
    /\ LockSpec
    /\ \A t \in Threads : WF_vars(GuardedBlockEnds(t))
    /\ \A t \in Threads : WF_vars(Cleanup(t))
    /\ SF_vars(WaitingCallReturns)

\* ------------------------------------------------------------------- claims
Has(seq, x) == \E i \in 1..Len(seq) : seq[i] = x
LiveThreads == {t \in Threads : Alive(t)}
Exited(t) == pc[t] \in {"cleanup", "emit_stopped", "done"}
FailureOps == {"open_failed", "decode_error", "publish_error"}
RetryStatuses == {RetryStatus(k) : k \in ExcKinds}

\* C1: at most one thread executing _run is alive at any time, whatever
\* sequence of start() and stop() calls the controller issues.
AtMostOneLiveThread == Cardinality(LiveThreads) <= 1

\* C2: whenever the recording lock is free, the flag, the output container and
\* the encoder stream are in one of three shapes: (clear, none, none),
\* (set, none, none) or (set, container, stream).
RecordingStateWellFormed ==
    lock = Free =>
        \/ ~recording /\ out_container = None /\ out_stream = None
        \/ recording /\ out_container = None /\ out_stream = None
        \/ recording /\ out_container # None /\ out_stream # None

\* C3: when the controller's stop_recording() closes a container, the encoder
\* was flushed after the last frame encoded into it.
StopRecordingFlushesBeforeClose ==
    (ev.by = Ctl /\ ev.op = "stop_recording" /\ Has(ev.io, "close"))
        => ~ev.lost

\* C4: when the exit cleanup of a worker thread closes a container, the
\* encoder was flushed after the last frame encoded into it.
ExitCleanupFlushesBeforeClose ==
    (ev.by \in Threads /\ ev.op = "cleanup" /\ Has(ev.io, "close"))
        => ~ev.lost

\* C5: a thread emits stopped only after its stop_recording() of the exit
\* cleanup has returned, which leaves the recording flag clear; once it has
\* emitted stopped the thread takes no further step.
StoppedAfterCleanup ==
    /\ [](\A t \in Threads : nStopped[t] > 0 => cleaned[t] /\ pc[t] = "done")
    /\ [](ev.op = "cleanup" => ~recording /\ cleaned[ev.by])
    /\ [][\A t \in Threads : nStopped[t] > 0 => ev'.by # t]_vars

WitnessStoppedAfterCleanup ==
    /\ ev.op = "stopped"
    /\ cleaned[ev.by]
    /\ nStopped[ev.by] = 1
    /\ exitWhy[ev.by] = "cancel"

\* C6: when stop() is the call right after start(), then at the return of
\* stop() the thread has terminated, no output container is held and the
\* recording flag is clear.
StartStopTerminates ==
    (ev.op = "stop_return" /\ ev.prev = "start") =>
        /\ ev.tid # None => pc[ev.tid] = "done"
        /\ out_container = None
        /\ ~recording

\* C7: a thread that finds no video stream announces "No video stream found"
\* and leaves the loop; from then on it announces nothing, makes no connect
\* attempt and no backoff, and it emits stopped exactly once.
NoVideoStopsOnce ==
    /\ [](ev.op = "no_video" =>
             /\ ev.status = "No video stream found"
             /\ pc[ev.by] = "cleanup"
             /\ exitWhy[ev.by] = "novideo")
    /\ [](\A t \in Threads : exitWhy[t] = "novideo" =>
             /\ Exited(t)
             /\ nStopped[t] = IF pc[t] = "done" THEN 1 ELSE 0)
    /\ [][\A t \in Threads : (exitWhy[t] = "novideo" /\ ev'.by = t) =>
             /\ ev'.status = ""
             /\ ev'.op \in {"cleanup", "stopped"}]_vars

WitnessNoVideoStopsOnce ==
    \E t \in Threads :
        exitWhy[t] = "novideo" /\ pc[t] = "done" /\ nStopped[t] = 1

\* C8: a transient failure (open failure, decode or conversion error, stream
\* end) handled with the cancel signal unset is announced and leads to the
\* backoff; the backoff with the signal unset leads to a new connect attempt;
\* a thread leaves the loop only on the cancel signal or on "no video stream".
TransientFailureRetries ==
    /\ []((ev.op \in FailureOps /\ ~stopEv) =>
             pc[ev.by] = "sleep" /\ ev.status \in RetryStatuses)
    /\ [](ev.op = "stream_retry" =>
             /\ pc[ev.by] = "sleep"
             /\ ev.status = "Stream ended, reconnecting in 2s")
    /\ [](\A t \in Threads : Exited(t) => exitWhy[t] \in {"cancel", "novideo"})
    /\ [][\A t \in Threads :
             (pc[t] = "after_flush" /\ ~stopEv /\ pc'[t] # pc[t]) =>
                 ev'.op = "stream_retry"]_vars
    /\ [][\A t \in Threads :
             (pc[t] = "sleep" /\ ~stopEv /\ pc'[t] # pc[t]) =>
                 /\ pc'[t] = "open"
                 /\ ev'.op = "reconnect"
                 /\ ev'.status = "Connecting"]_vars
    /\ [][\A t \in Threads :
             (~Exited(t) /\ Exited(t)') =>
                 stopEv \/ ev'.op = "no_video"]_vars

WitnessTransientFailureRetries ==
    /\ ev.op = "reconnect"
    /\ pc[ev.by] = "open"
    /\ ~stopEv

\* C9: start_recording(path) called while the flag is set returns False,
\* emits no recording_status, opens nothing and changes none of the flag,
\* the path, the container and the stream.
StartRecordingTwiceRejected ==
    [][(ev'.op = "start_recording" /\ recording) =>
          /\ ev'.ret = "False"
          /\ ev'.rec = "none"
          /\ ev'.io = <<>>
          /\ UNCHANGED <<recVars, containers, workerVars, lock>>]_vars

WitnessStartRecordingTwiceRejected ==
    /\ ev.op = "start_recording"
    /\ ev.ret = "False"
    /\ recording
    /\ recording_path \in Paths

\* C10: stop_recording() called while the flag is clear, by the controller or
\* by a thread's exit cleanup, changes no worker state, closes nothing and
\* emits no recording_status.
StopRecordingIdleNoop ==
    [][(ev'.op \in {"stop_recording", "cleanup"} /\ ~recording) =>
          /\ ev'.rec = "none"
          /\ ev'.io = <<>>
          /\ UNCHANGED <<recVars, containers, workerVars, lock>>]_vars

\* the flag is clear because an init failure cleared it (a container is held)
WitnessStopRecordingIdleNoop ==
    /\ ev.op = "stop_recording"
    /\ ev.rec = "none"
    /\ ~recording
    /\ out_container # None

\* the source timestamps present in the sequence f of fed frames are
\* non-decreasing
SourceOrdered(f) ==
    \A i, j \in 1..Len(f) :
        (i < j /\ f[i].src # NoPts /\ f[j].src # NoPts) => f[i].src <= f[j].src

\* the output timestamp the rebase rule gives the i-th fed frame (the first
\* is frame 0): its source timestamp less that of frame 0, its index when a
\* timestamp is absent
RebasedPts(f, i) ==
    IF f[i].src # NoPts /\ f[1].src # NoPts
    THEN f[i].src - f[1].src
    ELSE i - 1

\* C11: in every output container, when the source timestamps present among
\* the frames handed to the encoder are non-decreasing, frame i (counted from
\* 0) has the output timestamp src(i) - src(0) when it carries a source
\* timestamp and i when it does not, and the output timestamps are
\* non-decreasing.
OutputTimestampsRebased ==
    \A c \in DOMAIN containers :
        LET f == containers[c].fed
        IN SourceOrdered(f) =>
              /\ \A i \in 1..Len(f) : f[i].out = RebasedPts(f, i)
              /\ \A i \in 1..(Len(f) - 1) : f[i].out <= f[i + 1].out

OpenContainers == {c \in DOMAIN containers : containers[c].st = "open"}

\* C12: at most one recording session is active: the open output containers
\* are exactly the one the worker holds; a container is opened only in a step
\* that starts with no container held, and becomes the held one; a held
\* container stops being held only in a step that closes it.
OneSessionAtATime ==
    /\ [](OpenContainers = IF out_container = None THEN {} ELSE {out_container})
    /\ [][\A c \in DOMAIN containers :
             (containers[c].st = "unopened" /\ containers'[c].st # "unopened") =>
                 /\ out_container = None
                 /\ out_container' = c
                 /\ containers'[c].st = "open"]_vars
    /\ [][(out_container # None /\ out_container' # out_container) =>
             /\ containers'[out_container].st = "closed"
             /\ out_container' = None
             /\ Has(ev'.io, "close")]_vars

\* a second session is open after the first one was closed
WitnessOneSessionAtATime ==
    \E c, d \in DOMAIN containers :
        /\ containers[c].st = "closed"
        /\ containers[d].st = "open"
        /\ out_container = d
        /\ recording

RecordingFailureStatuses == {"Recording init failed", "Recording error"}

\* C13: a step of the recording block that reports "Recording init failed" or
\* "Recording error" leaves the thread in the frame loop, before the
\* conversion of that same frame; and a thread that leaves that position
\* without a conversion error has stored the frame as _last_qimage, emitted
\* frame_ready with it and gone back to decoding on the same connection.
RecordingFailureKeepsPlaying ==
    /\ []((ev.op = "record" /\ ev.status \in RecordingFailureStatuses) =>
             /\ pc[ev.by] = "publish"
             /\ frame[ev.by].id = ev.frame
             /\ frame[ev.by].id # 0
             /\ ~Exited(ev.by))
    /\ [](ev.op = "record" => ev.status \in RecordingFailureStatuses \cup {""})
    /\ [][\A t \in Threads :
             (pc[t] = "publish" /\ pc'[t] # "publish"
                                /\ ev'.op # "publish_error") =>
                 /\ ev'.by = t
                 /\ ev'.op = "frame_ready"
                 /\ ev'.frame = frame[t].id
                 /\ ev'.status = ""
                 /\ last_qimage' = frame[t].id
                 /\ pc'[t] = "decode"]_vars

\* the frame whose materialization failed part-way has been delivered
WitnessRecordingFailureKeepsPlaying ==
    /\ ev.op = "frame_ready"
    /\ last_qimage = ev.frame
    /\ pc[ev.by] = "decode"
    /\ ~recording
    /\ out_container # None

\* C14: a step changes the recording flag exactly when it emits a
\* recording_status notification, and the notification carries the new
\* value: True is emitted only from a clear flag and leaves it set, False
\* only from a set flag and leaves it clear (so the emissions alternate,
\* starting with True, and the last one equals the flag).
RecordingStatusTracksFlag ==
    [][/\ (recording' # recording) <=> (ev'.rec # "none")
       /\ ev'.rec \in {"none", "T", "F"}
       /\ ev'.rec = "T" => ~recording /\ recording'
       /\ ev'.rec = "F" => recording /\ ~recording']_vars

\* the auto-stop on init failure has emitted False
WitnessRecordingStatusTracksFlag ==
    /\ ev.op = "record"
    /\ ev.status = "Recording init failed"
    /\ ev.rec = "F"
    /\ ~recording

\* C15: save_snapshot returns False while no frame has been published, which
\* is the case as long as no frame has been decoded; otherwise the image it
\* writes is the frame published last; it changes no state of the worker and
\* emits nothing: its failure is its return value.
SaveSnapshotPureRead ==
    /\ [](decoded = 0 => last_qimage = None)
    /\ [][ev'.op = "save_snapshot" =>
             /\ ev'.by = Ctl
             /\ last_qimage = None => ev'.ret = "False"
             /\ ev'.ret \in {"True", "False"}
             /\ ev'.frame = IF ev'.ret = "True" THEN last_qimage ELSE 0
             /\ ev'.status = ""
             /\ ev'.rec = "none"
             /\ ev'.io = <<>>
             /\ UNCHANGED <<workerVars, lock, recVars, containers, decoded,
                            threadVars>>]_vars
    /\ [][/\ ev'.op = "frame_ready" => last_qimage' = ev'.frame
          /\ last_qimage' # last_qimage => ev'.op = "frame_ready"]_vars

\* a snapshot of the second frame, taken after it was published
WitnessSaveSnapshotPureRead ==
    /\ ev.op = "save_snapshot"
    /\ ev.ret = "True"
    /\ ev.frame = 2
    /\ last_qimage = 2

\* the containers a step opens
Opens == {c \in DOMAIN containers :
             containers[c].st = "unopened" /\ containers'[c].st # "unopened"}

\* C16: start_recording does no I/O and leaves the output container, the
\* encoder stream and every container as they were; when it succeeds it has
\* set the path and the flag and emitted recording_status(True).  A container
\* is opened only by a worker thread in its recording block for a decoded
\* frame, entered with the flag set and no container held, at the path
\* recorded by start_recording.
StartRecordingOpensNothing ==
    /\ [][ev'.op = "start_recording" =>
             /\ ev'.io = <<>>
             /\ Opens = {}
             /\ UNCHANGED <<out_container, out_stream, containers>>
             /\ ev'.ret = "True" =>
                    /\ recording'
                    /\ recording_path' \in Paths
                    /\ ev'.rec = "T"]_vars
    /\ [][(Opens # {} \/ Has(ev'.io, "open")) =>
             /\ ev'.by \in Threads
             /\ ev'.op = "record"
             /\ pc[ev'.by] = "locked"
             /\ lock = ev'.by
             /\ frame[ev'.by].id # 0
             /\ recording
             /\ out_container = None
             /\ ev'.path = recording_path]_vars

\* start_recording has returned True and nothing is open
WitnessStartRecordingOpensNothing ==
    /\ ev.op = "start_recording"
    /\ ev.ret = "True"
    /\ recording
    /\ out_container = None
    /\ \A c \in DOMAIN containers : containers[c].st = "unopened"
    /\ \E t \in Threads : pc[t] = "decode"

CtlLockedCalls == {"is_recording", "start_recording", "stop_recording"}

\* thread t is in a block under the lock in which it opens the output
\* (line 147), encodes and muxes (lines 178-179) or flushes (lines 195-196)
HoldsLockAcrossIO(t) ==
    \/ pc[t] = "locked" /\ (NeedsMaterialize(Cur) \/ NeedsWrite(Cur))
    \/ pc[t] = "flushing" /\ recording /\ out_stream # None

\* C17: no controller call of is_recording, start_recording or stop_recording
\* waits for the recording lock while a worker thread holds it for a block in
\* which it opens the output, encodes and muxes a frame, or flushes.
NoCallWaitsOnRecordingIO ==
    ~(/\ cpc \in CtlLockedCalls
      /\ lock \in Threads
      /\ HoldsLockAcrossIO(lock))

\* C18: frames are delivered to the frame sink in the order they were
\* decoded; the frames handed to an encoder are in decode order, none twice;
\* a thread delivers a frame only after its recording block for that frame,
\* and when that block was entered with the flag set and the container and
\* stream present, it handed the frame to the write (the frame was encoded,
\* or "Recording error" was reported for it).
FramesInDecodeOrder ==
    /\ [][ev'.op = "frame_ready" =>
             /\ ev'.frame > last_qimage
             /\ pc[ev'.by] = "publish"
             /\ ev'.frame = frame[ev'.by].id]_vars
    /\ [](\A c \in DOMAIN containers :
             \A i, j \in 1..Len(containers[c].fed) :
                 i < j => containers[c].fed[i].id < containers[c].fed[j].id)
    /\ [][\A t \in Threads :
             (pc[t] # "publish" /\ pc'[t] = "publish") =>
                 /\ ev'.by = t
                 /\ ev'.op = "record"
                 /\ ev'.frame = frame'[t].id
                 /\ NeedsWrite(Cur) =>
                        \/ ev'.status = "Recording error"
                        \/ /\ Has(ev'.io, "encode")
                           /\ LET f == containers'[out_container].fed
                              IN f[Len(f)].id = ev'.frame]_vars

\* C19: a thread that is in its backoff wait while the cancel signal is set
\* leaves the wait in less than the full backoff span.
BackoffIsCancellationPoint ==
    \A t \in Threads :
        (pc[t] = "sleep" /\ stopEv) => CallSecs(pc[t]) < BackoffSecs

\* a step with the cancel signal set before and after it announces neither
\* "Connecting" nor "Playing" and begins no connect attempt
CancelQuiet ==
    (stopEv /\ stopEv') =>
        /\ ev'.status \notin {"Connecting", "Playing"}
        /\ ev'.op \notin {"connect", "reconnect"}
        /\ \A t \in Threads : pc'[t] = "open" => pc[t] = "open"

\* a step with the cancel signal set before and after it takes no new frame
\* into the record-and-deliver path of lines 143-189
CancelOneMoreFrame ==
    (stopEv /\ stopEv') =>
        \A t \in Threads : pc'[t] = "lock" => pc[t] = "lock"

\* C20: while the cancel signal is set and stays set, no step announces
\* "Connecting" or "Playing" or begins a connect attempt, and no thread takes
\* a new frame into the frame path (so each thread delivers and records at
\* most the one frame it had already taken); and a live thread eventually
\* has run its exit cleanup and emitted stopped, unless the signal is cleared.
CancelEndsThread ==
    /\ [][CancelQuiet]_vars
    /\ [][CancelOneMoreFrame]_vars
    /\ \A t \in Threads :
          (stopEv /\ Alive(t)) ~>
              (~stopEv \/ (pc[t] = "done" /\ cleaned[t] /\ nStopped[t] = 1))

\* the positions of _run at which a thread holds the recording lock
LockedPositions == {"locked", "flushing"}

\* C21 as stated: a thread that holds the recording lock is not in a
\* source-side call or the backoff, and a thread takes the lock only when it
\* has obtained a frame.
LockOnlyForAFrame ==
    /\ [](lock \in Threads => pc[lock] \notin {"open", "decode", "sleep"})
    /\ [][\A t \in Threads :
             (lock # t /\ lock' = t) => frame[t].id # 0]_vars

\* C21: a thread holds the recording lock only in its recording block for a
\* frame and in its flush block, never in a source-side call or the backoff;
\* it takes the lock either for a frame it has obtained, and has released it
\* when it asks for the next frame, or for the flush after the frame loop
\* ended, and has released it before the backoff or the exit.
LockNotHeldWhileBlocked ==
    /\ [](lock \in Threads => pc[lock] \in LockedPositions)
    /\ [](\A t \in Threads : pc[t] \in LockedPositions => lock = t)
    /\ [][\A t \in Threads :
             (lock # t /\ lock' = t) =>
                 /\ lock = Free
                 /\ \/ pc[t] = "lock" /\ pc'[t] = "locked" /\ frame[t].id # 0
                    \/ pc[t] = "flush" /\ pc'[t] = "flushing"
                                      /\ frame[t].id = 0]_vars
    /\ [][\A t \in Threads :
             (lock = t /\ ev'.by = t) =>
                 /\ lock' = Free
                 /\ pc'[t] \in {"publish", "after_flush"}]_vars

\* the lock is held for the flush of a stream that ended before any frame
WitnessLockNotHeldWhileBlocked ==
    \E t \in Threads :
        lock = t /\ pc[t] = "flushing" /\ decoded = 0 /\ recording

\* C22: a recording block entered for a decoded frame with the flag set ends
\* either with the flag set, container and stream present and the frame
\* handed to the write (encoded, or "Recording error" reported), or with the
\* flag cleared and "Recording init failed" reported.
FlaggedFrameIsRecordedOrRefused ==
    [][(ev'.op = "record" /\ recording) =>
          \/ /\ recording'
             /\ out_container' # None
             /\ out_stream' # None
             /\ Has(ev'.io, "encode") \/ ev'.status = "Recording error"
          \/ /\ ~recording'
             /\ ev'.status = "Recording init failed"
             /\ ev'.rec = "F"]_vars

\* the positions of _run inside the `for frame in container.decode(stream)`
FrameLoopPositions == {"decode", "lock", "locked", "publish"}

FreshTimelinePerSession ==
    /\ [][(ev'.op = "record" /\ Has(ev'.io, "open") /\ recording') =>
             /\ recording_start_pts' = frame[ev'.by].pts
             /\ frame_count' = Len(containers'[out_container'].fed)]_vars
    /\ [](\A c \in DOMAIN containers :
             containers[c].fed # <<>> => containers[c].fed[1].out = 0)

\* C25: at every frame_ready emission _last_qimage is the emitted frame; and
\* _last_qimage changes only when a worker thread stores the frame it has
\* converted, never back to None.
LastFrameIsDeliveredFrame ==
    /\ [][ev'.op = "frame_ready" => last_qimage' = ev'.frame]_vars
    /\ [][last_qimage' # last_qimage =>
             /\ ev'.by \in Threads
             /\ last_qimage' # None
             /\ last_qimage' = frame[ev'.by].id]_vars

\* C26 as stated: every open of the source is made with max_delay equal to
\* latency_ms * 1000 and stimeout 5,000,000, and a thread's options never
\* change while it runs.
OptsFromLatency ==
    /\ [](\A t \in Threads : pc[t] = "open" =>
             /\ opts[t].max_delay = opts[t].latency_ms * 1000
             /\ opts[t].stimeout = 5 * 1000000)
    /\ [][\A t \in Threads : pc[t] # "idle" => opts'[t] = opts[t]]_vars

\* C26: every open of the source is made with max_delay equal to
\* latency_ms * 1000 when latency_ms is positive and 0 otherwise, and with
\* stimeout 5,000,000; a thread's options never change while it runs, so they
\* are the same at every reconnect.
OptsFromClampedLatency ==
    /\ [](\A t \in Threads : pc[t] = "open" =>
             /\ opts[t].max_delay = IF opts[t].latency_ms > 0
                                    THEN opts[t].latency_ms * 1000
                                    ELSE 0
             /\ opts[t].stimeout = 5 * 1000000
             /\ opts[t].rtsp_transport \in ConnectTransports
             /\ opts[t].latency_ms \in ConnectLatencies)
    /\ [][\A t \in Threads : pc[t] # "idle" => opts'[t] = opts[t]]_vars

\* a thread started with a negative latency reconnects with max_delay 0
WitnessOptsFromClampedLatency ==
    /\ ev.op = "reconnect"
    /\ pc[ev.by] = "open"
    /\ opts[ev.by].latency_ms < 0
    /\ opts[ev.by].max_delay = 0

\* C27: no frame is handed to the encoder of a stream that has been flushed:
\* once a session's stream was drained at stream end, the session takes no
\* further frame, also after a reconnect.
NoEncodeAfterFlush ==
    [][\A c \in DOMAIN containers :
         (containers[c].flushed /\ containers'[c].st = "open")
             => containers'[c].fed = containers[c].fed]_vars

ReconnectOps ==
    {"stream_end", "flush_lock", "flush", "stream_retry", "open_failed",
     "decode_error", "publish_error", "reconnect", "playing"}

\* C28: with the cancel signal unset, no step of the worker between the end of
\* a connection (stream end, open failure, decode or conversion error) and the
\* next frame changes the recording flag, the output container, the stream,
\* the start timestamp or the frame counter, or closes a container; and a
\* frame processed while a session is materialized goes to that session: the
\* container and its start timestamp stay, and the frame is appended to the
\* container's encoder input unless its conversion fails.
RecordingSurvivesReconnect ==
    /\ [][(ev'.by \in Threads /\ ev'.op \in ReconnectOps /\ ~stopEv) =>
            /\ recording' = recording
            /\ out_container' = out_container
            /\ out_stream' = out_stream
            /\ recording_path' = recording_path
            /\ recording_start_pts' = recording_start_pts
            /\ frame_count' = frame_count
            /\ \A c \in DOMAIN containers :
                  /\ containers'[c].st = containers[c].st
                  /\ containers'[c].stream = containers[c].stream
                  /\ containers'[c].fed = containers[c].fed]_vars
    /\ [][(ev'.op = "record" /\ recording /\ out_container # None
              /\ out_stream # None) =>
            /\ recording'
            /\ out_container' = out_container
            /\ out_stream' = out_stream
            /\ recording_start_pts' = recording_start_pts
            /\ containers'[out_container].st = "open"
            /\ \/ ev'.status = "Recording error"
               \/ Len(containers'[out_container].fed)
                      = Len(containers[out_container].fed) + 1]_vars

\* a session that took a frame, saw the stream end, and took a frame of the
\* next connection
WitnessRecordingSurvivesReconnect ==
    /\ ev.op = "record"
    /\ Has(ev.io, "encode")
    /\ recording
    /\ out_container # None
    /\ containers[out_container].flushed
    /\ Len(containers[out_container].fed) >= 2

\* C29: the recording lock cannot deadlock. A thread that holds the lock is
\* inside one of its guarded blocks, never at a point where it acquires the
\* lock; the lock is only taken when free; the step that ends a guarded
\* block, whatever the outcome of the calls in it, frees the lock; and, the
\* guarded blocks ending, every start_recording, stop_recording or
\* is_recording call that waits for the lock returns, as does the
\* stop_recording of a thread's cleanup.
LockCannotDeadlock ==
    /\ [](\A t \in Threads : lock = t => pc[t] \in LockedPositions)
    /\ [](lock \in Threads \cup {Free})
    /\ [][\A t \in Threads : (lock' = t /\ lock # t) => lock = Free]_vars
    /\ [][\A t \in Threads : (lock = t /\ pc'[t] # pc[t]) => lock' = Free]_vars
    /\ (cpc \in CtlLockedCalls) ~> (cpc = "idle")
    /\ \A t \in Threads : (pc[t] = "cleanup") ~> (pc[t] = "emit_stopped")

\* a stop_recording call waits while the thread holds the lock for the flush
\* of an active recording
WitnessLockCannotDeadlock ==
    /\ cpc = "stop_recording"
    /\ lock \in Threads
    /\ pc[lock] = "flushing"
    /\ recording
    /\ out_container # None

\* C30: whenever the panel's running flag is set and no start or stop call is
\* in progress, the worker has a live thread; a worker that ended on its own
\* therefore leaves the panel not running, with start_stream available.
RunningTracksWorker == (running /\ cpc = "idle") => HasLiveThread

====
